---- MODULE Spec2Model ----
(***************************************************************************)
(* Model of bot/sequential.go: the SequentialBot that runs the ordered     *)
(* operations of a spec against one PClient, with connect / disconnect /   *)
(* reconnect functions, requests, notifies and push waits.                 *)
(***************************************************************************)
EXTENDS Integers, Sequences, FiniteSets, TLC

(* ---------------------------------------------------------------- bounds *)
MaxSteps == 3

(* ------------------------------------------------------------ data model *)
Str(v) == [typ |-> "string", val |-> v]
Num(v) == [typ |-> "number", val |-> v]
Missing == [typ |-> "missing", val |-> ""]
Unset == [typ |-> "unset", val |-> ""]

ConfigHost == "h1"
Values == {Str("h2"), Num("7")}
Keys == {"a"}

\* a response (or push payload): field f varies, field g is fixed
Responses == [f : Values \cup {Missing}, g : {Str("h3")}]
NoResp == [f |-> Missing, g |-> Missing]
Raw(resp) == <<"raw", resp>>

Lit(n, v) == [name |-> n, tpl |-> FALSE, key |-> "", val |-> v]
Tpl(n, k) == [name |-> n, tpl |-> TRUE, key |-> k, val |-> Unset]

\* models.Operation
Op(t, u, a, e, s, to) ==
    [type |-> t, uri |-> u, args |-> a, expect |-> e, store |-> s, timeout |-> to]

Ops ==
    { Op("request", "/login", {}, {}, {[key |-> "a", path |-> "f"]}, 0),
      Op("request", "/profile", {Tpl("x", "a")}, {[path |-> "f", val |-> Str("h2")]}, {}, 0),
      Op("notify", "/note", {Tpl("x", "a")}, {}, {}, 0),
      Op("function", "disconnect", {}, {}, {}, 0),
      Op("function", "connect", {}, {}, {}, 0),
      Op("function", "connect", {Tpl("host", "a")}, {}, {}, 0),
      Op("function", "connect", {Lit("host", Str("h3"))}, {}, {}, 0),
      Op("function", "reconnect", {}, {}, {}, 0),
      Op("function", "bogus", {}, {}, {}, 0),
      Op("bogus", "/x", {}, {}, {}, 0),
      Op("listen", "/push", {}, {[path |-> "f", val |-> Str("h2")]}, {[key |-> "a", path |-> "g"]}, 1),
      Op("listen", "/push", {}, {}, {}, 2) }

\* the routes pushes come on
Routes == {"/push", "/other"}

Scenarios == UNION { [1..n -> Ops] : n \in 0..MaxSteps }

(* ---------------------------------------------------------------- errors *)
Err(k, raw, exp) == [kind |-> k, raw |-> raw, expect |-> exp]
Nil == Err("nil", Raw(NoResp), {})
PlainErr(k) == Err(k, Raw(NoResp), {})
\* NewExpectError(err, rawResp, op.Expect)
NewExpectError(e, raw, exp) == Err("ExpectError", raw, exp)

(* ----------------------------------------------------------------- state *)
VARIABLES
    steps,      \* b.spec.SequentialOperations
    i,          \* index of the step Run is at
    pc,         \* "running" | "waiting" | "done" | "fatal"
    err,        \* what Run returned
    client,     \* b.client: index into clients
    clients,    \* every PClient built so far
    host,       \* b.host
    storage,    \* b.storage
    waited,     \* time spent in the current ReceivePush
    log,        \* the calls made on the protocol client, in order
    returned,   \* what the handler of each finished step returned
    pending,    \* per route, the push held for a step to receive
    dropped     \* per route, whether the push listener has dropped a push

vars == <<steps, i, pc, err, client, clients, host, storage, waited, log, returned,
          pending, dropped>>

Ev(e, s, a, r, h, c) ==
    [ev |-> e, step |-> s, args |-> a, resp |-> r, host |-> h, conn |-> c]

ConstructStep == 0

(* ------------------------------------------- collaborators of the bot *)
\* buildArgs(op.Args, b.storage): literals pass through, templates read storage
BuildArgs(args, st) ==
    IF \E a \in args : a.tpl /\ st[a.key] = Unset
    THEN [ok |-> FALSE, args |-> {}]
    ELSE [ok |-> TRUE,
          args |-> { [name |-> a.name, val |-> IF a.tpl THEN st[a.key] ELSE a.val] : a \in args }]

\* validateExpectations(op.Expect, resp, b.storage): every declared field must hold
ValidateExpectations(expect, resp, st) ==
    IF \A e \in expect : resp[e.path] = e.val THEN Nil ELSE PlainErr("validate:mismatch")

\* storeData(op.Store, b.storage, resp): copy response fields into storage
StoreData(store, st, resp) ==
    IF \E s \in store : resp[s.path] = Missing
    THEN [ok |-> FALSE, st |-> st]
    ELSE [ok |-> TRUE,
          st |-> [k \in Keys |-> IF \E s \in store : s.key = k
                                 THEN resp[(CHOOSE s \in store : s.key = k).path]
                                 ELSE st[k]]]

\* NewPClient(host, tls): a connected client on host
NewPClient(h) == [host |-> h, connected |-> TRUE, listening |-> FALSE, started |-> 0]

\* PClient.Connected()
PClientConnected(cl) == cl.connected

\* PClient.StartListening(): starts the background push receiver
PClientStartListening(cl) == [cl EXCEPT !.listening = TRUE, !.started = @ + 1]

\* PClient.Disconnect(): tears down client and push listener; no-op if disconnected
PClientDisconnect(cl) ==
    IF cl.connected THEN [cl EXCEPT !.connected = FALSE, !.listening = FALSE] ELSE cl

\* sendRequest(args, route, b.client, reporters): the possible results
SendRequest(cl) ==
    IF cl.connected
    THEN { [err |-> Nil, resp |-> r] : r \in Responses }
         \cup { [err |-> PlainErr("transport"), resp |-> NoResp] }
    ELSE { [err |-> PlainErr("transport"), resp |-> NoResp] }

\* sendNotify(args, route, b.client): the possible results
SendNotify(cl) ==
    IF cl.connected THEN { Nil, PlainErr("transport") } ELSE { PlainErr("transport") }

(* ------------------------------------------------ connection lifecycle *)
\* the bot's connection fields, as one value
Bot == [client |-> client, clients |-> clients, host |-> host]

\* SequentialBot.startListening
startListening(B) ==
    [B EXCEPT !.clients[B.client] = PClientStartListening(@)]

\* a Disconnect that releases the connection and leaves the push listener
DisconnectReleasing(B) ==
    [B EXCEPT !.clients[B.client].connected = FALSE]

\* SequentialBot.Disconnect
Disconnect(B) ==
    [B EXCEPT !.clients[B.client] = PClientDisconnect(@)]

DisconnectEv(B, s) ==
    Ev("disconnect", s, {}, NoResp, B.clients[B.client].host, B.clients[B.client].connected)

\* the hosts argument of Connect, as recorded in the log
Given(hosts) == { [name |-> "host", val |-> Str(hosts[j])] : j \in 1..Len(hosts) }

\* a Connect that replaces the client without looking at Connected()
ConnectReplacing(B, hosts, ok, s) ==
    LET B1 == IF Len(hosts) > 0 THEN [B EXCEPT !.host = hosts[1]] ELSE B
    IN  IF ~ok
        THEN [b |-> B1, out |-> "err",
              evs |-> <<Ev("newclient", s, Given(hosts), NoResp, B1.host, FALSE)>>]
        ELSE [b |-> [B1 EXCEPT !.clients = Append(@, PClientStartListening(NewPClient(B1.host))),
                               !.client = Len(B1.clients) + 1],
              out |-> "ok",
              evs |-> <<Ev("newclient", s, Given(hosts), NoResp, B1.host, TRUE)>>]

\* a Connect that uses the given host for this client only
ConnectForgetting(B, hosts, ok, s) ==
    LET h == IF Len(hosts) > 0 THEN hosts[1] ELSE B.host
    IN  IF B.client # 0 /\ PClientConnected(B.clients[B.client])
        THEN [b |-> B, out |-> "fatal",
              evs |-> <<Ev("fatal", s, Given(hosts), NoResp, h, TRUE)>>]
        ELSE IF ~ok
        THEN [b |-> B, out |-> "err",
              evs |-> <<Ev("newclient", s, Given(hosts), NoResp, h, FALSE)>>]
        ELSE [b |-> [B EXCEPT !.clients = Append(@, PClientStartListening(NewPClient(h))),
                              !.client = Len(B.clients) + 1],
              out |-> "ok",
              evs |-> <<Ev("newclient", s, Given(hosts), NoResp, h, TRUE)>>]

\* a Connect that does not start the push listener
ConnectNotListening(B, hosts, ok, s) ==
    LET B1 == IF Len(hosts) > 0 THEN [B EXCEPT !.host = hosts[1]] ELSE B
    IN  IF B1.client # 0 /\ PClientConnected(B1.clients[B1.client])
        THEN [b |-> B1, out |-> "fatal",
              evs |-> <<Ev("fatal", s, Given(hosts), NoResp, B1.host, TRUE)>>]
        ELSE IF ~ok
        THEN [b |-> B1, out |-> "err",
              evs |-> <<Ev("newclient", s, Given(hosts), NoResp, B1.host, FALSE)>>]
        ELSE [b |-> [B1 EXCEPT !.clients = Append(@, NewPClient(B1.host)),
                               !.client = Len(B1.clients) + 1],
              out |-> "ok",
              evs |-> <<Ev("newclient", s, Given(hosts), NoResp, B1.host, TRUE)>>]

\* SequentialBot.Connect(hosts...): ok is whether NewPClient succeeds
Connect(B, hosts, ok, s) ==
    LET B1 == IF Len(hosts) > 0 THEN [B EXCEPT !.host = hosts[1]] ELSE B
    IN  IF B1.client # 0 /\ PClientConnected(B1.clients[B1.client])
        THEN [b |-> B1, out |-> "fatal",
              evs |-> <<Ev("fatal", s, Given(hosts), NoResp, B1.host, TRUE)>>]
        ELSE IF ~ok
        THEN [b |-> B1, out |-> "err",
              evs |-> <<Ev("newclient", s, Given(hosts), NoResp, B1.host, FALSE)>>]
        ELSE [b |-> startListening([B1 EXCEPT !.clients = Append(@, NewPClient(B1.host)),
                                              !.client = Len(B1.clients) + 1]),
              out |-> "ok",
              evs |-> <<Ev("newclient", s, Given(hosts), NoResp, B1.host, TRUE)>>]

\* SequentialBot.Reconnect
Reconnect(B, ok, s) ==
    LET C == Connect(Disconnect(B), <<>>, ok, s)
    IN  [C EXCEPT !.evs = <<DisconnectEv(B, s)>> \o @]

(* --------------------------------------------------------------- handlers *)
\* what a handler leaves behind: its error, storage, connection fields, calls made
Res(e, st, B, evs, fatal) == [err |-> e, st |-> st, b |-> B, evs |-> evs, fatal |-> fatal]

CallEv(name, B, s, args, resp) ==
    Ev(name, s, args, resp, B.clients[B.client].host, PClientConnected(B.clients[B.client]))

\* a runRequest that validates but leaves storage as it was
runRequestNoStore(op, B, st, out, s) ==
    LET A == BuildArgs(op.args, st)
        ev == CallEv("request", B, s, A.args, out.resp)
        v == ValidateExpectations(op.expect, out.resp, st)
    IN  IF ~A.ok THEN Res(PlainErr("template:unresolved"), st, B, <<>>, FALSE)
        ELSE IF out.err # Nil THEN Res(out.err, st, B, <<ev>>, FALSE)
        ELSE IF v # Nil THEN Res(NewExpectError(v, Raw(out.resp), op.expect), st, B, <<ev>>, FALSE)
        ELSE Res(Nil, st, B, <<ev>>, FALSE)

\* SequentialBot.runRequest; out is the result of sendRequest
runRequest(op, B, st, out, s) ==
    LET A == BuildArgs(op.args, st)
        ev == CallEv("request", B, s, A.args, out.resp)
        v == ValidateExpectations(op.expect, out.resp, st)
        S == StoreData(op.store, st, out.resp)
    IN  IF ~A.ok THEN Res(PlainErr("template:unresolved"), st, B, <<>>, FALSE)
        ELSE IF out.err # Nil THEN Res(out.err, st, B, <<ev>>, FALSE)
        ELSE IF v # Nil THEN Res(NewExpectError(v, Raw(out.resp), op.expect), st, B, <<ev>>, FALSE)
        ELSE IF ~S.ok THEN Res(PlainErr("store:path-missing"), S.st, B, <<ev>>, FALSE)
        ELSE Res(Nil, S.st, B, <<ev>>, FALSE)

\* a runNotify that sends what it has when resolution fails
runNotifySendingUnresolved(op, B, st, out, s) ==
    LET A == BuildArgs(op.args, st)
        ev == CallEv("notify", B, s, A.args, NoResp)
    IN  IF out # Nil THEN Res(out, st, B, <<ev>>, FALSE)
        ELSE IF ~A.ok THEN Res(PlainErr("template:unresolved"), st, B, <<ev>>, FALSE)
        ELSE Res(Nil, st, B, <<ev>>, FALSE)

\* SequentialBot.runNotify; out is the result of sendNotify
runNotify(op, B, st, out, s) ==
    LET A == BuildArgs(op.args, st)
        ev == CallEv("notify", B, s, A.args, NoResp)
    IN  IF ~A.ok THEN Res(PlainErr("template:unresolved"), st, B, <<>>, FALSE)
        ELSE IF out # Nil THEN Res(out, st, B, <<ev>>, FALSE)
        ELSE Res(Nil, st, B, <<ev>>, FALSE)

\* the host a connect step passes to Connect: b.host unless args["host"] is a string
ConnectHost(args, B) ==
    IF \E a \in args : a.name = "host" /\ a.val.typ = "string"
    THEN (CHOOSE a \in args : a.name = "host").val.val
    ELSE B.host

\* a runFunction whose switch runs Disconnect for a name it does not know
runFunctionDefaultDisconnect(op, B, st, ok, s) ==
    CASE op.uri = "connect" ->
            LET A == BuildArgs(op.args, st)
                C == Connect(B, <<ConnectHost(A.args, B)>>, ok, s)
            IN  IF ~A.ok THEN Res(PlainErr("template:unresolved"), st, B, <<>>, FALSE)
                ELSE Res(Nil, st, C.b, C.evs, C.out = "fatal")
      [] op.uri = "reconnect" ->
            LET C == Reconnect(B, ok, s)
            IN  Res(Nil, st, C.b, C.evs, C.out = "fatal")
      [] OTHER ->
            Res(Nil, st, Disconnect(B), <<DisconnectEv(B, s)>>, FALSE)

\* a runFunction that reports an error for disconnect on a disconnected client
runFunctionStrictDisconnect(op, B, st, ok, s) ==
    CASE op.uri = "disconnect" ->
            IF PClientConnected(B.clients[B.client])
            THEN Res(Nil, st, Disconnect(B), <<DisconnectEv(B, s)>>, FALSE)
            ELSE Res(PlainErr("not connected"), st, B, <<DisconnectEv(B, s)>>, FALSE)
      [] op.uri = "connect" ->
            LET A == BuildArgs(op.args, st)
                C == Connect(B, <<ConnectHost(A.args, B)>>, ok, s)
            IN  IF ~A.ok THEN Res(PlainErr("template:unresolved"), st, B, <<>>, FALSE)
                ELSE Res(Nil, st, C.b, C.evs, C.out = "fatal")
      [] op.uri = "reconnect" ->
            LET C == Reconnect(B, ok, s)
            IN  Res(Nil, st, C.b, C.evs, C.out = "fatal")
      [] OTHER ->
            Res(PlainErr("function:unknown"), st, B, <<>>, FALSE)

\* SequentialBot.runFunction; ok is whether NewPClient succeeds
runFunction(op, B, st, ok, s) ==
    CASE op.uri = "disconnect" ->
            Res(Nil, st, Disconnect(B), <<DisconnectEv(B, s)>>, FALSE)
      [] op.uri = "connect" ->
            LET A == BuildArgs(op.args, st)
                C == Connect(B, <<ConnectHost(A.args, B)>>, ok, s)
            IN  IF ~A.ok THEN Res(PlainErr("template:unresolved"), st, B, <<>>, FALSE)
                ELSE Res(Nil, st, C.b, C.evs, C.out = "fatal")
      [] op.uri = "reconnect" ->
            LET C == Reconnect(B, ok, s)
            IN  Res(Nil, st, C.b, C.evs, C.out = "fatal")
      [] OTHER ->
            Res(PlainErr("function:unknown"), st, B, <<>>, FALSE)

\* a listenToPush that goes on after ReceivePush failed
listenToPushIgnoringErr(op, B, st, recv, s) ==
    LET v == ValidateExpectations(op.expect, recv.resp, st)
    IN  IF v # Nil THEN Res(v, st, B, <<>>, FALSE)
        ELSE Res(Nil, st, B, <<>>, FALSE)

\* a listenToPush that stores before it validates
listenToPushStoringFirst(op, B, st, recv, s) ==
    LET v == ValidateExpectations(op.expect, recv.resp, st)
        S == StoreData(op.store, st, recv.resp)
    IN  IF recv.err # Nil THEN Res(recv.err, st, B, <<>>, FALSE)
        ELSE IF ~S.ok THEN Res(PlainErr("store:path-missing"), S.st, B, <<>>, FALSE)
        ELSE IF v # Nil THEN Res(v, S.st, B, <<>>, FALSE)
        ELSE Res(Nil, S.st, B, <<>>, FALSE)

\* SequentialBot.listenToPush after ReceivePush returned recv
listenToPush(op, B, st, recv, s) ==
    LET v == ValidateExpectations(op.expect, recv.resp, st)
        S == StoreData(op.store, st, recv.resp)
    IN  IF recv.err # Nil THEN Res(recv.err, st, B, <<>>, FALSE)
        ELSE IF v # Nil THEN Res(v, st, B, <<>>, FALSE)
        ELSE IF ~S.ok THEN Res(PlainErr("store:path-missing"), S.st, B, <<>>, FALSE)
        ELSE Res(Nil, S.st, B, <<>>, FALSE)

\* SequentialBot.runOperation: the kinds that have a handler
KnownTypes == {"request", "notify", "function", "listen"}

(* -------------------------------------------------------------------- Run *)
\* a loop that goes on after an error
ContinueAfterError(e) == TRUE

\* the loop of Run: go on to the next step only after a nil error
Continue(e) == e = Nil

\* the handler of step i returned R (or the process exited in logger.Fatal)
StepReturn(R) ==
    /\ storage' = R.st
    /\ host' = R.b.host
    /\ client' = R.b.client
    /\ clients' = R.b.clients
    /\ log' = log \o R.evs
    /\ UNCHANGED <<steps, waited, dropped>>
    /\ IF R.fatal
       THEN /\ pc' = "fatal"
            /\ UNCHANGED <<err, i, returned>>
       ELSE /\ returned' = Append(returned, R.err)
            /\ IF Continue(R.err)
               THEN /\ pc' = "running"
                    /\ i' = i + 1
                    /\ err' = Nil
               ELSE /\ pc' = "returning"
                    /\ i' = i
                    /\ err' = R.err

AtStep(t) == pc = "running" /\ i <= Len(steps) /\ steps[i].type = t

\* NewSequentialBot succeeded: connected to the configured host, storage empty
Init ==
    LET C == Connect([client |-> 0, clients |-> <<>>, host |-> ConfigHost], <<>>, TRUE, ConstructStep)
    IN  /\ steps \in Scenarios
        /\ i = 1
        /\ pc = "running"
        /\ err = Nil
        /\ client = C.b.client
        /\ clients = C.b.clients
        /\ host = C.b.host
        /\ storage = [k \in Keys |-> Unset]
        /\ waited = 0
        /\ log = C.evs
        /\ returned = <<>>
        /\ pending = [r \in Routes |-> NoResp]
        /\ dropped = [r \in Routes |-> FALSE]

\* a Run that returns only from a handler's error
LeavingOnError == pc = "returning"

\* Run is leaving: after the loop, or at the return of a handler's error
Leaving == pc = "returning" \/ (pc = "running" /\ i > Len(steps))

\* a Run that returns without the deferred Disconnect
RunReturnNoDisconnect ==
    /\ Leaving
    /\ pc' = "done"
    /\ log' = Append(log, DisconnectEv(Bot, Len(steps) + 1))
    /\ UNCHANGED <<steps, i, err, client, clients, host, storage, waited, returned,
                   pending, dropped>>

\* Run returns: the deferred Disconnect runs
RunReturn ==
    /\ Leaving
    /\ pc' = "done"
    /\ clients' = Disconnect(Bot).clients
    /\ log' = Append(log, DisconnectEv(Bot, Len(steps) + 1))
    /\ UNCHANGED <<steps, i, err, client, host, storage, waited, returned, pending, dropped>>

RunRequestStep ==
    /\ AtStep("request")
    /\ UNCHANGED pending
    /\ \E out \in SendRequest(clients[client]) :
          StepReturn(runRequest(steps[i], Bot, storage, out, i))

RunNotifyStep ==
    /\ AtStep("notify")
    /\ UNCHANGED pending
    /\ \E out \in SendNotify(clients[client]) :
          StepReturn(runNotify(steps[i], Bot, storage, out, i))

RunFunctionStep ==
    /\ AtStep("function")
    /\ UNCHANGED pending
    /\ \E ok \in BOOLEAN :
          StepReturn(runFunction(steps[i], Bot, storage, ok, i))

\* runOperation falls out of the switch
RunUnknownStep ==
    /\ pc = "running" /\ i <= Len(steps) /\ steps[i].type \notin KnownTypes
    /\ UNCHANGED pending
    /\ StepReturn(Res(PlainErr("type:unknown"), storage, Bot, <<>>, FALSE))

\* a listenToPush that leaves the wait behind and lets Run go on
ListenStartDetached ==
    /\ AtStep("listen")
    /\ pc' = "running"
    /\ i' = i + 1
    /\ waited' = 0
    /\ log' = Append(log, CallEv("listen", Bot, i, {}, NoResp))
    /\ UNCHANGED <<steps, err, client, clients, host, storage, returned, pending, dropped>>

\* listenToPush calls ReceivePush and blocks
ListenStart ==
    /\ AtStep("listen")
    /\ pc' = "waiting"
    /\ waited' = 0
    /\ log' = Append(log, CallEv("listen", Bot, i, {}, NoResp))
    /\ UNCHANGED <<steps, i, err, client, clients, host, storage, returned, pending, dropped>>

\* ReceivePush gives up once the timeout has elapsed
TimedOut(w, t) == w >= t

\* time passes while ReceivePush waits
Tick ==
    /\ pc = "waiting"
    /\ ~TimedOut(waited, steps[i].timeout)
    /\ waited' = waited + 1
    /\ UNCHANGED <<steps, i, pc, err, client, clients, host, storage, log, returned,
                   pending, dropped>>

\* the push listener of cl is receiving from the connection
Receiving(cl) == cl.connected /\ cl.listening

\* what a step waiting on route can receive: the push held for the route,
\* else one that the push listener takes from the connection now
Receivable(cl, slot, route) ==
    IF slot[route] # NoResp THEN {slot[route]}
    ELSE IF Receiving(cl) THEN Responses
    ELSE {}

\* the push listener hands a push on the awaited route to the waiting step
PushDelivered ==
    /\ pc = "waiting"
    /\ pending' = [pending EXCEPT ![steps[i].uri] = NoResp]
    /\ \E r \in Receivable(clients[client], pending, steps[i].uri) :
          LET R == listenToPush(steps[i], Bot, storage, [err |-> Nil, resp |-> r], i)
          IN  StepReturn([R EXCEPT !.evs = <<CallEv("push", Bot, i, {}, r)>>])

\* a push listener that keeps a push nobody waits for
UnawaitedKept(slot, route, r) == [slot EXCEPT ![route] = r]

\* what the push listener does with a push on a route nobody waits on: drop it
Unawaited(slot, route, r) == slot

\* a step is blocked in ReceivePush on route
Awaited(route) == pc = "waiting" /\ steps[i].uri = route

\* the push listener takes a push on a route that no step is waiting on
PushDropped ==
    /\ pc # "fatal"
    /\ Receiving(clients[client])
    /\ \E route \in Routes, r \in Responses :
          /\ ~Awaited(route)
          /\ pending' = Unawaited(pending, route, r)
          /\ dropped' = [dropped EXCEPT ![route] = TRUE]
    /\ UNCHANGED <<steps, i, pc, err, client, clients, host, storage, waited, log, returned>>

ListenTimeout ==
    /\ pc = "waiting"
    /\ TimedOut(waited, steps[i].timeout)
    /\ UNCHANGED pending
    /\ StepReturn(listenToPush(steps[i], Bot, storage,
                               [err |-> PlainErr("push:timeout"), resp |-> NoResp], i))

Next ==
    \/ RunReturn
    \/ RunRequestStep
    \/ RunNotifyStep
    \/ RunFunctionStep
    \/ RunUnknownStep
    \/ ListenStart
    \/ Tick
    \/ PushDelivered
    \/ PushDropped
    \/ ListenTimeout

Spec == Init /\ [][Next]_vars

\* what Run's goroutine and the timer of ReceivePush do; arriving pushes are not in it
RunMoves ==
    \/ RunReturn
    \/ RunRequestStep
    \/ RunNotifyStep
    \/ RunFunctionStep
    \/ RunUnknownStep
    \/ ListenStart
    \/ Tick
    \/ ListenTimeout

\* one operation for each handler, and those that connect and disconnect
LiveOps ==
    { op \in Ops : \/ op.uri \in {"/login", "/note", "disconnect", "/x"}
                   \/ op.type = "function" /\ op.uri = "connect" /\ op.args = {}
                   \/ op.type = "listen" /\ op.timeout = 2 }

LiveInit == Init /\ \A k \in 1..Len(steps) : steps[k] \in LiveOps

\* Run is scheduled, exchanges complete or fail, and time passes
LiveSpec == LiveInit /\ [][Next]_vars /\ WF_vars(RunMoves)

(* ================================================================ claims *)
NetEvents == {"request", "notify", "listen", "push", "newclient", "fatal"}
LogIdx == 1..Len(log)

\* the transition is one of Run, not one of the push listener
ByRun == dropped' = dropped
IsDeferred(e) == e.ev = "disconnect" /\ e.step = Len(steps) + 1

\* C1: fail-fast. If the handler of step k returned an error then k is the
\* last step that ran, Run is returning exactly that error, every step before
\* k returned nil, the calls in the log are in step order, and no call on the
\* client belongs to a step after k.
FailFast ==
    \A k \in 1..Len(returned) :
        returned[k] # Nil =>
            /\ k = Len(returned)
            /\ k = i
            /\ pc \in {"returning", "done"}
            /\ err = returned[k]
            /\ \A j \in 1..(k - 1) : returned[j] = Nil
            /\ \A p \in LogIdx : log[p].ev \in NetEvents => log[p].step <= k
            /\ \A p, q \in LogIdx : p < q => log[p].step <= log[q].step

\* a run that failed at a middle step, after a call on the client
FailFastWitness ==
    /\ pc = "done"
    /\ err # Nil
    /\ i = 2
    /\ Len(steps) = 3
    /\ \E p \in LogIdx : log[p].ev = "request" /\ log[p].step = 1

DeferredCount == Cardinality({ p \in LogIdx : IsDeferred(log[p]) })

\* C2: on every path by which a run ends (all steps done, a step failed, or
\* the fatal double connect) the exit Disconnect has run exactly once and is
\* the last thing that happened.
ExitDisconnectsOnce ==
    pc \in {"done", "fatal"} =>
        /\ DeferredCount = 1
        /\ IsDeferred(log[Len(log)])

LiveClients == { c \in 1..Len(clients) : clients[c].connected }

ConnectWhileConnected ==
    /\ AtStep("function")
    /\ steps[i].uri = "connect"
    /\ BuildArgs(steps[i].args, storage).ok
    /\ PClientConnected(clients[client])

\* C3: at most one client is live in every state, and a connect step taken
\* while the client is connected ends in the fatal exit with the client
\* handle and every client left as they were.
ConnectNeverReplaces ==
    [][ /\ Cardinality(LiveClients) <= 1
        /\ Cardinality(LiveClients') <= 1
        /\ (ConnectWhileConnected /\ ByRun) =>
              /\ pc' = "fatal"
              /\ client' = client
              /\ clients' = clients
              /\ log'[Len(log')].ev = "fatal" ]_vars

\* the fatal exit, reached after an earlier disconnect and connect
ConnectNeverReplacesWitness ==
    /\ pc = "fatal"
    /\ client = 2
    /\ PClientConnected(clients[client])
    /\ ~PClientConnected(clients[1])

\* C4: a connect or reconnect step whose NewPClient fails is a failing step:
\* its handler returns an error, and Run returns that error at that step.
ConnectFailureAborts ==
    \A p \in LogIdx :
        (log[p].ev = "newclient" /\ ~log[p].conn /\ log[p].step \in 1..Len(steps)) =>
            /\ Len(returned) = log[p].step
            /\ returned[log[p].step] # Nil
            /\ pc \in {"returning", "done"}
            /\ err = returned[log[p].step]

UnknownStep ==
    /\ pc = "running"
    /\ i <= Len(steps)
    /\ \/ steps[i].type \notin {"request", "notify", "function", "listen"}
       \/ /\ steps[i].type = "function"
          /\ steps[i].uri \notin {"connect", "disconnect", "reconnect"}

\* C5: a step of unknown kind, or a function step of unknown name, returns an
\* error with no call on the client, and leaves the connection and storage as
\* they were.
UnknownFailsBeforeNetwork ==
    [][ (UnknownStep /\ ByRun) =>
          /\ pc' = "returning"
          /\ err' # Nil
          /\ returned' = Append(returned, err')
          /\ log' = log
          /\ UNCHANGED <<client, clients, host, storage>> ]_vars

\* an unknown function name met with a live connection and a stored value
UnknownFailsBeforeNetworkWitness ==
    /\ pc = "returning"
    /\ err = PlainErr("function:unknown")
    /\ storage["a"] # Unset
    /\ PClientConnected(clients[client])

\* the responses and pushes of step k that do not meet the step's expectation
Mismatches(k) ==
    { p \in LogIdx : /\ log[p].step = k
                     /\ log[p].ev \in {"request", "push"}
                     /\ log[p].resp \in Responses
                     /\ \E e \in steps[k].expect : log[p].resp[e.path] # e.val }

\* C6: an expectation mismatch, in a request step and in a listen step alike,
\* makes the step return an expectation error that carries the raw response
\* and the expectation that failed.
MismatchIsExpectError ==
    \A k \in 1..Len(returned) :
        \A p \in Mismatches(k) :
            /\ returned[k].kind = "ExpectError"
            /\ returned[k].raw = Raw(log[p].resp)
            /\ returned[k].expect = steps[k].expect

Max(S) == CHOOSE x \in S : \A y \in S : y <= x

\* the steps before k that returned nil and store under key
Writers(k, key) ==
    { j \in 1..(k - 1) : /\ j <= Len(returned)
                         /\ returned[j] = Nil
                         /\ \E w \in steps[j].store : w.key = key }

\* the value step j took from its response or push for key
Extracted(j, key) ==
    LET p == CHOOSE q \in LogIdx : log[q].step = j /\ log[q].ev \in {"request", "push"}
        w == CHOOSE x \in steps[j].store : x.key = key
    IN  log[p].resp[w.path]

\* C7: once a step has stored a value under a key, a later request or notify
\* step with a template argument on that key resolves it and sends exactly the
\* value taken from the response by the latest such store, whatever
\* disconnect, connect or reconnect steps ran in between; a connect step with
\* a template host is given that value when it is a string.
StorageRoundTrip ==
    \A k \in 1..Len(returned) :
        \A a \in steps[k].args :
            (a.tpl /\ Writers(k, a.key) # {}) =>
                LET v == Extracted(Max(Writers(k, a.key)), a.key)
                IN  /\ returned[k].kind # "template:unresolved"
                    /\ steps[k].type \in {"request", "notify"} =>
                          \E p \in LogIdx :
                              /\ log[p].step = k
                              /\ log[p].ev = steps[k].type
                              /\ [name |-> a.name, val |-> v] \in log[p].args
                    /\ (steps[k].type = "function" /\ v.typ = "string") =>
                          \E p \in LogIdx :
                              /\ log[p].step = k
                              /\ log[p].ev = "newclient"
                              /\ log[p].args = {[name |-> a.name, val |-> v]}

\* a stored value sent by a notify after a reconnect in between
StorageRoundTripWitness ==
    /\ Len(returned) = 3
    /\ returned[3] = Nil
    /\ steps[1].type = "request" /\ steps[1].store # {}
    /\ steps[2].uri = "reconnect"
    /\ steps[3].type = "notify"
    /\ \E p \in LogIdx : log[p].step = 3 /\ log[p].ev = "notify" /\ log[p].args # {}

\* C8: a listen step that returns without a push having been delivered to it
\* returns the push timeout error, not before its timeout has elapsed, and Run
\* returns that error without running another step.
ListenTimesOut ==
    \A k \in 1..Len(returned) :
        steps[k].type = "listen" =>
            /\ (\A p \in LogIdx : ~(log[p].step = k /\ log[p].ev = "push")) =>
                  returned[k].kind = "push:timeout"
            /\ returned[k].kind = "push:timeout" =>
                  /\ waited >= steps[k].timeout
                  /\ k = Len(returned)
                  /\ k = i
                  /\ pc \in {"returning", "done"}
                  /\ err = returned[k]
                  /\ \A p \in LogIdx : log[p].ev \in NetEvents => log[p].step <= k

\* a listen with timeout 2 that timed out in the middle of a scenario
ListenTimesOutWitness ==
    /\ pc = "done"
    /\ err = PlainErr("push:timeout")
    /\ i = 2
    /\ Len(steps) = 3
    /\ steps[i].timeout = 2
    /\ PClientConnected(clients[client]) = FALSE

DisconnectStep == AtStep("function") /\ steps[i].uri = "disconnect"

\* C9: a disconnect step, and the Disconnect at the end of Run, taken while
\* the client is disconnected change neither the client handle, the clients
\* and their listeners, the host nor storage, and report no error.
DisconnectIsNoOp ==
    [][ (~PClientConnected(clients[client]) /\ (DisconnectStep \/ Leaving) /\ ByRun) =>
          /\ UNCHANGED <<client, clients, host, storage>>
          /\ DisconnectStep => (pc' = "running" /\ err' = Nil /\ returned' = Append(returned, Nil))
          /\ Leaving => (pc' = "done" /\ err' = err /\ returned' = returned) ]_vars

\* a second disconnect step in a row has returned
DisconnectIsNoOpWitness ==
    /\ Len(returned) >= 2
    /\ steps[1].type = "function" /\ steps[1].uri = "disconnect"
    /\ steps[2].type = "function" /\ steps[2].uri = "disconnect"
    /\ ~PClientConnected(clients[client])

\* the host most recently given to Connect, else the configured one
LastGivenHost ==
    LET G == { p \in LogIdx : log[p].ev \in {"newclient", "fatal"} /\ log[p].args # {} }
    IN  IF G = {} THEN ConfigHost ELSE (CHOOSE a \in log[Max(G)].args : TRUE).val.val

ReconnectStep == AtStep("function") /\ steps[i].uri = "reconnect"

LiteralConnectStep(h) ==
    /\ AtStep("function")
    /\ steps[i].uri = "connect"
    /\ steps[i].args = {Lit("host", Str(h))}

\* C10: a reconnect step builds its client on the host most recently given to
\* Connect (the host argument of the latest connect step, else the configured
\* host), and when that succeeds the bot holds a new, connected client on that
\* host and no other client is live; a connect step with a literal host is
\* given that host.
ReconnectUsesLastHost ==
    [][ /\ (ReconnectStep /\ ByRun) =>
              LET e == log'[Len(log')]
              IN  /\ e.ev = "newclient"
                  /\ e.step = i
                  /\ e.host = LastGivenHost
                  /\ e.conn =>
                        /\ client' = Len(clients')
                        /\ client' # client
                        /\ clients'[client'].host = LastGivenHost
                        /\ PClientConnected(clients'[client'])
                        /\ LiveClients' = {client'}
        /\ \A h \in {"h3"} :
              (LiteralConnectStep(h) /\ ByRun) =>
                  /\ log'[Len(log')].host = h
                  /\ log'[Len(log')].args = {[name |-> "host", val |-> Str(h)]} ]_vars

\* a reconnect that succeeded on a host a connect step had overridden
ReconnectUsesLastHostWitness ==
    /\ Len(returned) = 3
    /\ steps[2].uri = "connect"
    /\ steps[3].type = "function" /\ steps[3].uri = "reconnect"
    /\ client = 3
    /\ clients[client].host = "h3"
    /\ clients[2].host = "h3"
    /\ PClientConnected(clients[client])

\* the steps that have made calls and whose handler has not returned
InProgress ==
    { k \in 1..Len(steps) : k > Len(returned) /\ \E p \in LogIdx : log[p].step = k }

\* the push waits that have begun and not ended
PendingWaits ==
    { k \in InProgress : \E p \in LogIdx : log[p].step = k /\ log[p].ev = "listen" }

\* C11: operations run in scenario order, one at a time: the calls in the log
\* are in step order, a step has calls only once every step before it has
\* returned nil, at most one step and at most one push wait is in progress,
\* and while a step waits for a push the only transitions are the passing of
\* time, the push listener and the end of that wait.
OneStepAtATime ==
    /\ [](/\ \A p, q \in LogIdx : p < q => log[p].step <= log[q].step
          /\ \A j \in 1..(Len(returned) - 1) : returned[j] = Nil
          /\ \A p \in LogIdx :
                log[p].step \in 1..Len(steps) =>
                    /\ log[p].step <= Len(returned) + 1
                    /\ \A j \in 1..(log[p].step - 1) : returned[j] = Nil
          /\ Cardinality(InProgress) <= 1
          /\ PendingWaits = IF pc = "waiting" THEN {i} ELSE {})
    /\ [][ pc = "waiting" =>
             /\ UNCHANGED <<client, clients, host>>
             /\ \/ /\ pc' = "waiting"
                   /\ UNCHANGED <<i, log, returned, storage>>
                \/ /\ \/ pc' = "running" /\ i' = i + 1
                      \/ pc' = "returning" /\ i' = i
                   /\ Len(returned') = i
                   /\ \/ log' = log
                      \/ /\ Len(log') = Len(log) + 1
                         /\ log'[Len(log')].ev = "push"
                         /\ log'[Len(log')].step = i ]_vars

\* a second step waiting for a push while the push listener has dropped one
OneStepAtATimeWitness ==
    /\ pc = "waiting"
    /\ i = 2
    /\ waited = 1
    /\ dropped["/other"]
    /\ Len(returned) = 1

ClientIdx == 1..Len(clients)

\* the push listener has taken a push from the connection in this transition
ListenerMoved ==
    \/ dropped' # dropped
    \/ /\ Len(log') = Len(log) + 1
       /\ log'[Len(log')].ev = "push"

UnawaitedPushIsDropped ==
    /\ [](/\ \A route \in Routes : pending[route] = NoResp
          /\ \A p \in LogIdx :
                log[p].ev = "push" =>
                    \E q \in 1..(p - 1) : log[q].ev = "listen" /\ log[q].step = log[p].step)
    /\ [][ /\ dropped' # dropped =>
                UNCHANGED <<steps, i, pc, err, client, clients, host, storage, waited,
                            log, returned, pending>>
           /\ (AtStep("listen") /\ ByRun) =>
                /\ pc' = "waiting"
                /\ log'[Len(log')].ev = "listen"
                /\ UNCHANGED <<i, returned, storage>> ]_vars

\* a step waits on a route on which a push was dropped before the wait began
UnawaitedPushIsDroppedWitness ==
    /\ pc = "waiting"
    /\ steps[i].uri = "/push"
    /\ dropped["/push"]
    /\ clients[client].connected
    /\ waited = 1

Listening == { c \in ClientIdx : clients[c].listening }

\* C14: the push listener is started exactly once on every client that Connect
\* builds, at most one push listener is running, and a push listener runs on
\* a client exactly when that client is the bot's client and is connected.
OneListenerPerConnection ==
    /\ \A c \in ClientIdx : clients[c].started = 1
    /\ Cardinality(Listening) <= 1
    /\ \A c \in ClientIdx :
          clients[c].listening <=> (c = client /\ PClientConnected(clients[c]))

\* a third connection, after a disconnect step, a connect step and a reconnect step
OneListenerPerConnectionWitness ==
    /\ Len(clients) = 3
    /\ Len(returned) = 3
    /\ steps[1].uri = "disconnect"
    /\ steps[2].uri = "connect"
    /\ steps[3].uri = "reconnect"
    /\ Listening = {3}

\* the step Run is at takes arguments and one of them names an unset key
ResolutionFails ==
    /\ pc = "running"
    /\ i <= Len(steps)
    /\ \/ steps[i].type \in {"request", "notify"}
       \/ steps[i].type = "function" /\ steps[i].uri = "connect"
    /\ \E a \in steps[i].args : a.tpl /\ storage[a.key] = Unset

\* C15: a request, notify or connect step whose arguments do not resolve
\* returns the template error with no call on the client and no connect, and
\* leaves the connection and storage as they were.
UnresolvedArgsSendNothing ==
    [][ (ResolutionFails /\ ByRun) =>
          /\ pc' = "returning"
          /\ err' = PlainErr("template:unresolved")
          /\ returned' = Append(returned, err')
          /\ log' = log
          /\ UNCHANGED <<i, client, clients, host, storage>> ]_vars

\* a connect step with an unresolved host, met while disconnected
UnresolvedArgsSendNothingWitness ==
    /\ pc = "returning"
    /\ err = PlainErr("template:unresolved")
    /\ steps[i].type = "function"
    /\ steps[i].uri = "connect"
    /\ ~PClientConnected(clients[client])
    /\ Len(clients) = 1

\* C16: storage changes only in a request or listen step that returns nil,
\* whose response or push met the step's expectation, and only in the keys
\* the step stores, each set to the field of that response it names; every
\* other transition leaves storage as it was.
StorageChangesOnlyInStore ==
    [][ storage' # storage =>
          LET e == log'[Len(log')]
          IN  /\ pc \in {"running", "waiting"}
              /\ steps[i].type \in {"request", "listen"}
              /\ returned' = Append(returned, Nil)
              /\ Len(returned') = i
              /\ e.step = i
              /\ e.ev = IF steps[i].type = "request" THEN "request" ELSE "push"
              /\ e.resp \in Responses
              /\ \A x \in steps[i].expect : e.resp[x.path] = x.val
              /\ \A k \in Keys :
                    storage'[k] # storage[k] =>
                        \E w \in steps[i].store :
                            w.key = k /\ storage'[k] = e.resp[w.path] ]_vars

\* a listen step has overwritten what a request step had stored
StorageChangesOnlyInStoreWitness ==
    /\ Len(returned) = 2
    /\ returned[2] = Nil
    /\ steps[1].type = "request"
    /\ steps[2].type = "listen"
    /\ storage["a"] = Str("h3")
    /\ \E p \in LogIdx : log[p].step = 1 /\ log[p].ev = "request" /\ log[p].resp.f = Num("7")

\* C17: a step that waits for a push stops waiting, and only by a push handed
\* to it or by its timeout having elapsed, with its handler returning; and Run
\* ends, by returning or by the fatal exit.
ListenReturnsRunEnds ==
    /\ (pc = "waiting") ~> (pc # "waiting")
    /\ <>(pc \in {"done", "fatal"})
    /\ [][ (pc = "waiting" /\ pc' # "waiting") =>
             /\ Len(returned') = i
             /\ \/ /\ Len(log') = Len(log) + 1
                   /\ log'[Len(log')].ev = "push"
                   /\ log'[Len(log')].step = i
                \/ /\ log' = log
                   /\ returned'[i] = PlainErr("push:timeout")
                   /\ waited >= steps[i].timeout ]_vars

\* Run has returned after a listen step on a disconnected client timed out
ListenReturnsRunEndsWitness ==
    /\ pc = "done"
    /\ Len(steps) = 3
    /\ i = 2
    /\ steps[1].uri = "disconnect"
    /\ steps[2].type = "listen"
    /\ returned[2] = PlainErr("push:timeout")

\* C18: every request, notify and push wait is issued on a client that is
\* connected at the time of the call.
IssuedOnlyWhileConnected ==
    \A p \in LogIdx :
        log[p].ev \in {"request", "notify", "listen"} => log[p].conn

\* C19: when Run has returned, with or without an error, the bot's client is
\* disconnected, no client is live and no push listener is running.
ReturnedMeansDisconnected ==
    pc = "done" =>
        /\ ~PClientConnected(clients[client])
        /\ LiveClients = {}
        /\ Listening = {}

\* Run has returned nil after a last step that connected
ReturnedMeansDisconnectedWitness ==
    /\ pc = "done"
    /\ err = Nil
    /\ Len(steps) >= 2
    /\ Len(returned) = Len(steps)
    /\ steps[Len(steps)].type = "function"
    /\ steps[Len(steps)].uri \in {"connect", "reconnect"}
    /\ client = Len(clients)
    /\ Len(clients) >= 2
    /\ log[Len(log)].ev = "disconnect"
    /\ log[Len(log)].conn
    /\ log[Len(log) - 1].ev = "newclient"

====
